---------------------------- MODULE Spec2Model ----------------------------
(***************************************************************************)
(* A model of the enum-conversion-derive procedural macro.                 *)
(*                                                                         *)
(* A text (a Rust String, or the text of a token stream) is a sequence of  *)
(* atoms; an atom is one token, written as a TLA+ string.  White space is  *)
(* not represented.  A HashMap<String, String> is a function from variant  *)
(* names to texts, and its iteration order is an argument (order) of every *)
(* operator that iterates it.                                              *)
(***************************************************************************)
EXTENDS Integers, Sequences, FiniteSets, TLC

VARIABLES ast, call

vars == <<ast, call>>

---------------------------------------------------------------------------
(* Bounds of the enumerated declarations. *)

MaxVariants == 2

MaxParams == 3

---------------------------------------------------------------------------
(* Texts. *)

(* The concatenation of ss[lo..hi], by halves. *)
RECURSIVE FlattenRange(_, _, _)
FlattenRange(ss, lo, hi) ==
    IF lo > hi THEN <<>>
    ELSE IF lo = hi THEN ss[lo]
    ELSE LET mid == (lo + hi) \div 2
         IN  FlattenRange(ss, lo, mid) \o FlattenRange(ss, mid + 1, hi)

Flatten(ss) == FlattenRange(ss, 1, Len(ss))

RECURSIVE Join(_, _)
Join(ss, sep) ==
    IF ss = <<>> THEN <<>>
    ELSE IF Len(ss) = 1 THEN Head(ss)
    ELSE Head(ss) \o sep \o Join(Tail(ss), sep)

(* String::pop removes the last char.  It is only applied to param_string, *)
(* whose last atom, when there is one, is the one-char atom ",".           *)
Pop(s) == IF s = <<>> THEN s ELSE SubSeq(s, 1, Len(s) - 1)

Ok(v) == [ok |-> TRUE, val |-> v, msg |-> "", stage |-> ""]

Panic(where, m) == [ok |-> FALSE, val |-> <<>>, msg |-> m, stage |-> where]

---------------------------------------------------------------------------
(* The syntax tree handed to the macro (syn::DeriveInput). *)

PathType(id) == [k |-> "Path", id |-> id, elems |-> <<>>]

TupleType(elems) == [k |-> "Tuple", id |-> "", elems |-> elems]

I64 == PathType("i64")

Bool == PathType("bool")

TupleI64Bool == TupleType(<<I64, Bool>>)

TypePool == {I64, Bool, TupleI64Bool}

(* syn::Type::to_token_stream().to_string() *)
RECURSIVE TypeText(_)
TypeText(ty) ==
    CASE ty.k = "Path" -> <<ty.id>>
      [] ty.k = "Tuple" ->
            <<"(">> \o Join([i \in 1..Len(ty.elems) |-> TypeText(ty.elems[i])], <<",">>)
                    \o <<")">>

UnnamedFields(tys) == [kind |-> "Unnamed", unnamed |-> tys]

NamedFields == [kind |-> "Named", unnamed |-> <<>>]

UnitFields == [kind |-> "Unit", unnamed |-> <<>>]


(* The shapes a variant is enumerated with: a unit variant, a variant with *)
(* named fields, and tuple variants of zero, one and two fields.           *)
FieldsPool ==
    {UnitFields, NamedFields, UnnamedFields(<<>>), UnnamedFields(<<I64, Bool>>)}
        \cup {UnnamedFields(<<ty>>) : ty \in TypePool}

(* The i-th variant of a declaration is named VariantNames[i]: the names   *)
(* of the variants of one enum are pairwise distinct.                      *)
VariantNames == <<"A", "B", "C", "D">>

VariantLists ==
    UNION {{[i \in 1..n |-> [ident |-> VariantNames[i], fields |-> f[i]]] :
                f \in [1..n -> FieldsPool]} : n \in 0..MaxVariants}

TypeParam(id, bounds) ==
    [kind |-> "Type", ident |-> id, lifetime |-> "", bounds |-> bounds]

LifetimeDef(lt) ==
    [kind |-> "Lifetime", ident |-> "", lifetime |-> lt, bounds |-> <<>>]

ConstParam(id, ty) ==
    [kind |-> "Const", ident |-> id, lifetime |-> "", bounds |-> <<ty>>]

ParamPool ==
    {LifetimeDef("'a"), TypeParam("T", <<"'a", "+", "Debug">>), ConstParam("X", "usize")}

ParamLists ==
    UNION {{p \in [1..n -> ParamPool] : \A i, j \in 1..n : p[i] = p[j] => i = j} :
                n \in 0..MaxParams}

WherePredicate(bounded, bounds) == [bounded |-> bounded, bounds |-> bounds]

PredUIntoT == WherePredicate(<<"U">>, <<"Into", "<", "T", ">">>)

PredTDebug == WherePredicate(<<"T">>, <<"Debug">>)

NoWhere == [present |-> FALSE, predicates |-> <<>>, trailing |-> FALSE]

WhereClause(preds, trailing) ==
    [present |-> TRUE, predicates |-> preds, trailing |-> trailing]

WhereClauses ==
    {NoWhere, WhereClause(<<PredUIntoT>>, FALSE), WhereClause(<<PredUIntoT>>, TRUE),
     WhereClause(<<PredUIntoT, PredTDebug>>, FALSE)}

EnumName == "Enum"

DeriveInputs ==
    {[ident |-> EnumName, data |-> "Enum", variants |-> vs,
      params |-> ps, where_clause |-> w] :
        vs \in VariantLists, ps \in ParamLists, w \in WhereClauses}
    \cup
    {[ident |-> EnumName, data |-> "Struct", variants |-> <<>>,
      params |-> ps, where_clause |-> w] : ps \in ParamLists, w \in WhereClauses}

---------------------------------------------------------------------------
(* parse_enum.rs *)

(* The token text of one generic parameter with its bounds. *)
ParamText(param) ==
    CASE param.kind = "Type" ->
            IF param.bounds = <<>> THEN <<param.ident>>
            ELSE <<param.ident, ":">> \o param.bounds
      [] param.kind = "Lifetime" -> <<param.lifetime>>
      [] param.kind = "Const" -> <<"const", param.ident, ":">> \o param.bounds

PredicateText(pred) == pred.bounded \o <<":">> \o pred.bounds

WhereText(w) ==
    IF ~w.present \/ w.predicates = <<>> THEN <<>>
    ELSE <<"where">>
            \o Join([i \in 1..Len(w.predicates) |-> PredicateText(w.predicates[i])],
                    <<",">>)
            \o (IF w.trailing THEN <<",">> ELSE <<>>)

RECURSIVE param_string_loop(_)
param_string_loop(params) ==
    IF params = <<>> THEN <<>>
    ELSE LET param == Head(params)
             next == CASE param.kind = "Type" -> <<param.ident>>
                       [] param.kind = "Lifetime" -> <<param.lifetime>>
                       [] param.kind = "Const" -> <<param.ident>>
         IN  next \o <<",">> \o param_string_loop(Tail(params))

(* fetch_name_with_generic_params without param_string.pop(). *)
fetch_name_keeping_last_comma(a) ==
    LET param_string == param_string_loop(a.params)
    IN  IF param_string # <<>>
        THEN <<a.ident, "<">> \o param_string \o <<">">>
        ELSE <<a.ident>>

fetch_name_with_generic_params(a) ==
    LET param_string == Pop(param_string_loop(a.params))
    IN  IF param_string # <<>>
        THEN <<a.ident, "<">> \o param_string \o <<">">>
        ELSE <<a.ident>>

(* Generics::to_tokens prints the lifetimes before the other parameters. *)
fetch_impl_generics(a) ==
    LET lifetimes == SelectSeq(a.params, LAMBDA p : p.kind = "Lifetime")
        others == SelectSeq(a.params, LAMBDA p : p.kind # "Lifetime")
        all == lifetimes \o others
        generics == IF all = <<>> THEN <<>>
                    ELSE <<"<">> \o Join([i \in 1..Len(all) |-> ParamText(all[i])],
                                         <<",">>) \o <<">">>
    IN  <<generics, WhereText(a.where_clause)>>

MultipleFieldsMsg ==
    "Can only derive for enums whose types do not contain multiple fields."

NamedFieldsMsg == "Can only derive for enums whose types do not have named fields."

UnitMsg == "Can only derive for enums who don't contain unit types as variants."

NotEnumMsg == "Can only derive for enums."

(* The closure of fetch_fields_from_enum's map, on one variant. *)
VariantEntry(var) ==
    CASE var.fields.kind = "Unnamed" ->
            IF Len(var.fields.unnamed) # 1
            THEN Panic("fetch_fields_from_enum", MultipleFieldsMsg)
            ELSE Ok(<<var.ident, TypeText(var.fields.unnamed[1])>>)
      [] var.fields.kind = "Named" -> Panic("fetch_fields_from_enum", NamedFieldsMsg)
      [] var.fields.kind = "Unit" -> Panic("fetch_fields_from_enum", UnitMsg)

(* collect(): the variants are mapped in order, the first panic ends the   *)
(* call, and a later pair replaces an earlier one with the same key.       *)
RECURSIVE CollectEntries(_, _)
CollectEntries(variants, map) ==
    IF variants = <<>> THEN Ok(map)
    ELSE LET e == VariantEntry(Head(variants))
         IN  IF ~e.ok THEN e
             ELSE CollectEntries(Tail(variants),
                    [k \in DOMAIN map \cup {e.val[1]} |->
                        IF k = e.val[1] THEN e.val[2] ELSE map[k]])

(* fetch_fields_from_enum starting at the second variant. *)
fetch_fields_skipping_first(a) ==
    IF a.data = "Enum"
    THEN CollectEntries(IF a.variants = <<>> THEN <<>> ELSE Tail(a.variants), <<>>)
    ELSE Panic("fetch_fields_from_enum", NotEnumMsg)

(* fetch_fields_from_enum leaving out what it cannot convert, without a    *)
(* panic.                                                                  *)
fetch_fields_ignoring_unsupported(a) ==
    CollectEntries(
        SelectSeq(a.variants,
                  LAMBDA var : var.fields.kind = "Unnamed" /\ Len(var.fields.unnamed) = 1),
        <<>>)

fetch_fields_from_enum(a) ==
    IF a.data = "Enum" THEN CollectEntries(a.variants, <<>>)
    ELSE Panic("fetch_fields_from_enum", NotEnumMsg)

---------------------------------------------------------------------------
(* str::parse::<TokenStream>(): the lexer groups the tokens by delimiter   *)
(* and fails with a LexError on an unclosed, unopened or mismatched one.   *)
(* The text between two quote atoms is a string literal.                   *)

Opening == {"(", "[", "{"}

Closing == {")", "]", "}"}

Opener(c) == CASE c = ")" -> "(" [] c = "]" -> "[" [] c = "}" -> "{"

(* What the lexer is left with after text[lo..hi], entered inside a string *)
(* literal or not: the closing delimiters that no opening one of the range *)
(* precedes, the opening ones still open (the stack, innermost last), and  *)
(* err when a closing delimiter met an opening one of another kind.  The   *)
(* range is lexed by halves, the second half from where the first ends.    *)
RECURSIVE Lex(_, _, _, _)
Lex(text, lo, hi, inString) ==
    IF lo > hi
    THEN [err |-> FALSE, close |-> <<>>, open |-> <<>>, inString |-> inString]
    ELSE IF lo = hi
    THEN LET t == text[lo]
         IN  [err |-> FALSE,
              close |-> IF ~inString /\ t \in Closing THEN <<t>> ELSE <<>>,
              open |-> IF ~inString /\ t \in Opening THEN <<t>> ELSE <<>>,
              inString |-> IF t = "\"" THEN ~inString ELSE inString]
    ELSE LET mid == (lo + hi) \div 2
             a == Lex(text, lo, mid, inString)
             b == Lex(text, mid + 1, hi, a.inString)
             k == IF Len(a.open) < Len(b.close) THEN Len(a.open) ELSE Len(b.close)
         IN  [err |-> \/ a.err
                      \/ b.err
                      \/ \E j \in 1..k :
                            a.open[Len(a.open) - j + 1] # Opener(b.close[j]),
              close |-> a.close \o SubSeq(b.close, k + 1, Len(b.close)),
              open |-> SubSeq(a.open, 1, Len(a.open) - k) \o b.open,
              inString |-> b.inString]

Balanced(text) ==
    LET end == Lex(text, 1, Len(text), FALSE)
    IN  ~end.err /\ end.close = <<>> /\ end.open = <<>> /\ ~end.inString

LexErrorMsg == "called Result::unwrap() on an Err value: LexError"

(* text.parse().unwrap() in the function where. *)
ParseUnwrap(where, text) ==
    IF Balanced(text) THEN Ok(text) ELSE Panic(where, LexErrorMsg)

---------------------------------------------------------------------------
(* templates.rs: a template is a sequence of literal atoms and variables.  *)

Lit(s) == [k |-> "lit", v |-> s]

Var(s) == [k |-> "var", v |-> s]

GET_VARIANT_TEMPLATE ==
    << Lit("impl"), Var("generics"), Lit("variant_access_traits"), Lit("::"), Lit("GetVariant"),
       Lit("<"), Var("Type"), Lit(","), Var("Marker"), Lit(">"), Lit("for"), Var("fullname"), Var("Where"),
       Lit("{"), Lit("fn"), Lit("get_variant"), Lit("("), Lit("self"), Lit(")"), Lit("->"), Lit("std"),
       Lit("::"), Lit("result"), Lit("::"), Lit("Result"), Lit("<"), Var("Type"), Lit(","),
       Lit("variant_access_traits"), Lit("::"), Lit("VariantAccessError"), Lit(">"), Lit("{"),
       Lit("match"), Lit("self"), Lit("{"), Var("name"), Lit("::"), Var("field"), Lit("("), Lit("inner"),
       Lit(")"), Lit("=>"), Lit("Ok"), Lit("("), Lit("inner"), Lit(")"), Lit(","), Lit("_"), Lit("=>"),
       Lit("Err"), Lit("("), Lit("variant_access_traits"), Lit("::"), Lit("VariantAccessError"),
       Lit("::"), Lit("wrong_active_field"), Lit("("), Lit("\""), Var("fullname"), Lit("\""), Lit(","),
       Lit("\""), Var("Type"), Lit("\""), Lit(")"), Lit(")"), Lit("}"), Lit("}"), Lit("fn"),
       Lit("get_variant_ref"), Lit("("), Lit("&"), Lit("self"), Lit(")"), Lit("->"), Lit("std"), Lit("::"),
       Lit("result"), Lit("::"), Lit("Result"), Lit("<"), Lit("&"), Var("Type"), Lit(","),
       Lit("variant_access_traits"), Lit("::"), Lit("VariantAccessError"), Lit(">"), Lit("{"),
       Lit("match"), Lit("&"), Lit("self"), Lit("{"), Var("name"), Lit("::"), Var("field"), Lit("("),
       Lit("inner"), Lit(")"), Lit("=>"), Lit("Ok"), Lit("("), Lit("inner"), Lit(")"), Lit(","), Lit("_"),
       Lit("=>"), Lit("Err"), Lit("("), Lit("variant_access_traits"), Lit("::"),
       Lit("VariantAccessError"), Lit("::"), Lit("wrong_active_field"), Lit("("), Lit("\""),
       Var("fullname"), Lit("\""), Lit(","), Lit("\""), Var("Type"), Lit("\""), Lit(")"), Lit(")"), Lit("}"),
       Lit("}"), Lit("fn"), Lit("get_variant_mut"), Lit("("), Lit("&"), Lit("mut"), Lit("self"), Lit(")"),
       Lit("->"), Lit("std"), Lit("::"), Lit("result"), Lit("::"), Lit("Result"), Lit("<"), Lit("&"),
       Lit("mut"), Var("Type"), Lit(","), Lit("variant_access_traits"), Lit("::"),
       Lit("VariantAccessError"), Lit(">"), Lit("{"), Lit("match"), Lit("self"), Lit("{"), Var("name"),
       Lit("::"), Var("field"), Lit("("), Lit("inner"), Lit(")"), Lit("=>"), Lit("Ok"), Lit("("),
       Lit("inner"), Lit(")"), Lit(","), Lit("_"), Lit("=>"), Lit("Err"), Lit("("),
       Lit("variant_access_traits"), Lit("::"), Lit("VariantAccessError"), Lit("::"),
       Lit("wrong_active_field"), Lit("("), Lit("\""), Var("fullname"), Lit("\""), Lit(","), Lit("\""),
       Var("Type"), Lit("\""), Lit(")"), Lit(")"), Lit("}"), Lit("}") >>

TRY_FROM_TEMPLATE ==
    << Lit("impl"), Var("generics"), Lit("TryFrom"), Lit("<"), Var("fullname"), Lit(">"), Lit("for"),
       Var("Type"), Var("Where"), Lit("{"), Lit("type"), Lit("Error"), Lit("="), Lit("Box"), Lit("<"),
       Lit("dyn"), Lit("Error"), Lit("+"), Lit("'static"), Lit(">"), Lit("fn"), Lit("try_from"), Lit("("),
       Lit("value"), Lit(":"), Var("name"), Lit(")"), Lit("->"), Lit("std"), Lit("::"), Lit("result"),
       Lit("::"), Lit("Result"), Lit("<"), Lit("Self"), Lit(","), Lit("Self"), Lit("::"), Lit("Error"),
       Lit(">"), Lit("{"), Lit("value"), Lit("."), Lit("get_variant"), Lit("("), Lit(")"), Lit("."),
       Lit("map_err"), Lit("("), Lit("|"), Lit("e"), Lit("|"), Lit("e"), Lit("."), Lit("to_string"), Lit("("),
       Lit(")"), Lit("."), Lit("into"), Lit("("), Lit(")"), Lit(")"), Lit("}"), Lit("}") >>

FROM_TEMPLATE ==
    << Lit("impl"), Var("generics"), Lit("From"), Lit("<"), Var("Type"), Lit(">"), Lit("for"),
       Var("fullname"), Var("Where"), Lit("{"), Lit("fn"), Lit("from"), Lit("("), Lit("value"), Lit(":"),
       Var("Type"), Lit(")"), Lit("->"), Lit("Self"), Lit("{"), Lit("Self"), Lit("::"), Var("field"),
       Lit("("), Lit("value"), Lit(")"), Lit("}"), Lit("}") >>


(* Tera::render: every variable is replaced by its value in the context;  *)
(* a variable the context lacks is an error.  The templates' names have no *)
(* .html, .htm or .xml suffix, so the values are not escaped.              *)
Render(template, context) ==
    IF \E i \in 1..Len(template) :
            template[i].k = "var" /\ template[i].v \notin DOMAIN context
    THEN Panic("render", "Failed to render")
    ELSE Ok(Flatten([i \in 1..Len(template) |->
                IF template[i].k = "var" THEN context[template[i].v]
                ELSE <<template[i].v>>]))

RECURSIVE RenderAll(_, _, _, _)
RenderAll(template, contexts, where, msg) ==
    IF contexts = <<>> THEN Ok(<<>>)
    ELSE LET r == Render(template, Head(contexts))
         IN  IF ~r.ok THEN Panic(where, msg)
             ELSE LET rest == RenderAll(template, Tail(contexts), where, msg)
                  IN  IF ~rest.ok THEN rest ELSE Ok(r.val \o rest.val)

---------------------------------------------------------------------------
(* parse_enum.rs, the markers.  The iteration order of the map is order.  *)

Orders(S) ==
    {o \in [1..Cardinality(S) -> S] : \A i, j \in DOMAIN o : o[i] = o[j] => i = j}

marker_enums_text(name, types, order) ==
    <<"#", "[", "allow", "(", "non_snake_case", "]", "mod", "enum___conversion___">>
        \o name \o <<"{">>
        \o Flatten([i \in 1..Len(order) |->
                <<"pub", "(", "crate", ")", "enum", order[i], "{", "}">>])
        \o <<"}">>

create_marker_enums(name, types, order) ==
    ParseUnwrap("create_marker_enums", marker_enums_text(name, types, order))

get_marker(name, field) == <<"enum___conversion___">> \o name \o <<"::">> \o field

---------------------------------------------------------------------------
(* lib.rs *)

(* The templates impl_conversions registers. *)
Tera ==
    [get_variant |-> GET_VARIANT_TEMPLATE, try_from |-> TRY_FROM_TEMPLATE,
     from |-> FROM_TEMPLATE]

get_variant_contexts(name, fullname, where_clause, impl_generics, field_map, order) ==
    [i \in 1..Len(order) |->
        [generics |-> impl_generics, Type |-> field_map[order[i]],
         Marker |-> get_marker(name, <<order[i]>>), fullname |-> fullname,
         name |-> name, field |-> <<order[i]>>, Where |-> where_clause]]

impl_get_variant(name, fullname, where_clause, impl_generics, field_map, order) ==
    LET impl_string ==
            RenderAll(Tera["get_variant"],
                      get_variant_contexts(name, fullname, where_clause, impl_generics,
                                           field_map, order),
                      "impl_get_variant", "Failed to render the GetVariant template")
    IN  IF ~impl_string.ok THEN impl_string
        ELSE ParseUnwrap("impl_get_variant", impl_string.val)

(* The where_string of one variant in impl_try_from. *)
where_string(name, fullname, where_clause, field, ty) ==
    LET marker_bound ==
            IF where_clause = <<>>
            THEN <<"where">> \o fullname \o <<":", "GetVariant", "<">> \o ty \o <<",">>
                    \o get_marker(name, field) \o <<">">>
            ELSE fullname \o <<":", "GetVariant", "<">> \o ty \o <<",">>
                    \o get_marker(name, field) \o <<">">>
    IN  where_clause \o marker_bound

try_from_contexts(name, fullname, where_clause, impl_generics, field_map, order) ==
    [i \in 1..Len(order) |->
        [generics |-> impl_generics, Type |-> field_map[order[i]],
         fullname |-> fullname, name |-> name,
         Where |-> where_string(name, fullname, where_clause, <<order[i]>>,
                                field_map[order[i]])]]

impl_try_from(name, fullname, where_clause, impl_generics, field_map, order) ==
    LET impl_string ==
            RenderAll(Tera["try_from"],
                      try_from_contexts(name, fullname, where_clause, impl_generics,
                                        field_map, order),
                      "impl_try_from", "Failed to render the TryFrom template")
    IN  IF ~impl_string.ok THEN impl_string
        ELSE ParseUnwrap("impl_try_from", impl_string.val)

from_contexts(fullname, where_clause, impl_generics, field_map, order) ==
    [i \in 1..Len(order) |->
        [generics |-> impl_generics, Type |-> field_map[order[i]],
         fullname |-> fullname, field |-> <<order[i]>>, Where |-> where_clause]]

impl_from(fullname, where_clause, impl_generics, field_map, order) ==
    LET impl_string ==
            RenderAll(Tera["from"],
                      from_contexts(fullname, where_clause, impl_generics, field_map,
                                    order),
                      "impl_from", "Failed to render the From template")
    IN  IF ~impl_string.ok THEN impl_string
        ELSE ParseUnwrap("impl_from", impl_string.val)

(* The end of an invocation: tokens is the local variable of               *)
(* impl_conversions at that point, val the token stream it returns.        *)
Aborted(p, tokens) ==
    [ok |-> FALSE, val |-> <<>>, msg |-> p.msg, stage |-> p.stage, tokens |-> tokens]

Returned(tokens) ==
    [ok |-> TRUE, val |-> tokens, msg |-> "", stage |-> "", tokens |-> tokens]

impl_conversions(a, order) ==
    LET tokens == <<>>
        name == <<a.ident>>
        fullname == fetch_name_with_generic_params(a)
        impl_generics == fetch_impl_generics(a)[1]
        where_clause == fetch_impl_generics(a)[2]
        field_map == fetch_fields_from_enum(a)
    IN  IF ~field_map.ok THEN Aborted(field_map, tokens)
        ELSE
        LET markers == create_marker_enums(name, field_map.val, order)
        IN  IF ~markers.ok THEN Aborted(markers, tokens)
            ELSE
            LET gv == impl_get_variant(name, fullname, where_clause, impl_generics,
                                       field_map.val, order)
            IN  IF ~gv.ok THEN Aborted(gv, tokens \o markers.val)
                ELSE
                LET tf == impl_try_from(name, fullname, where_clause, impl_generics,
                                        field_map.val, order)
                IN  IF ~tf.ok THEN Aborted(tf, tokens \o markers.val \o gv.val)
                    ELSE
                    LET fr == impl_from(fullname, where_clause, impl_generics,
                                        field_map.val, order)
                    IN  IF ~fr.ok
                        THEN Aborted(fr, tokens \o markers.val \o gv.val \o tf.val)
                        ELSE Returned(tokens \o markers.val \o gv.val \o tf.val
                                        \o fr.val)

(* The iteration orders the field map of a may have. *)
FieldOrders(a) ==
    LET field_map == fetch_fields_from_enum(a)
    IN  IF field_map.ok THEN Orders(DOMAIN field_map.val) ELSE {<<>>}

---------------------------------------------------------------------------
(* The state: the declaration the macro is applied to, and the one call    *)
(* made on it with its result.                                             *)

NoCall == [fn |-> "none", order |-> <<>>, res |-> Ok(<<>>)]

Init == ast \in DeriveInputs /\ call = NoCall

Call_fetch_name_with_generic_params ==
    /\ call = NoCall
    /\ call' = [fn |-> "fetch_name_with_generic_params", order |-> <<>>,
                res |-> Ok(fetch_name_with_generic_params(ast))]
    /\ UNCHANGED ast

Call_fetch_impl_generics ==
    /\ call = NoCall
    /\ call' = [fn |-> "fetch_impl_generics", order |-> <<>>,
                res |-> Ok(fetch_impl_generics(ast))]
    /\ UNCHANGED ast

Call_fetch_fields_from_enum ==
    /\ call = NoCall
    /\ call' = [fn |-> "fetch_fields_from_enum", order |-> <<>>,
                res |-> fetch_fields_from_enum(ast)]
    /\ UNCHANGED ast

Call_create_marker_enums ==
    /\ call = NoCall
    /\ fetch_fields_from_enum(ast).ok
    /\ \E order \in FieldOrders(ast) :
        call' = [fn |-> "create_marker_enums", order |-> order,
                 res |-> create_marker_enums(<<ast.ident>>,
                            fetch_fields_from_enum(ast).val, order)]
    /\ UNCHANGED ast

Call_impl_get_variant ==
    /\ call = NoCall
    /\ fetch_fields_from_enum(ast).ok
    /\ \E order \in FieldOrders(ast) :
        call' = [fn |-> "impl_get_variant", order |-> order,
                 res |-> impl_get_variant(<<ast.ident>>,
                            fetch_name_with_generic_params(ast),
                            fetch_impl_generics(ast)[2], fetch_impl_generics(ast)[1],
                            fetch_fields_from_enum(ast).val, order)]
    /\ UNCHANGED ast

Call_impl_try_from ==
    /\ call = NoCall
    /\ fetch_fields_from_enum(ast).ok
    /\ \E order \in FieldOrders(ast) :
        call' = [fn |-> "impl_try_from", order |-> order,
                 res |-> impl_try_from(<<ast.ident>>,
                            fetch_name_with_generic_params(ast),
                            fetch_impl_generics(ast)[2], fetch_impl_generics(ast)[1],
                            fetch_fields_from_enum(ast).val, order)]
    /\ UNCHANGED ast

Call_impl_from ==
    /\ call = NoCall
    /\ fetch_fields_from_enum(ast).ok
    /\ \E order \in FieldOrders(ast) :
        call' = [fn |-> "impl_from", order |-> order,
                 res |-> impl_from(fetch_name_with_generic_params(ast),
                            fetch_impl_generics(ast)[2], fetch_impl_generics(ast)[1],
                            fetch_fields_from_enum(ast).val, order)]
    /\ UNCHANGED ast

(* The derive macro applied to the declaration. *)
enum_conversions_derive ==
    /\ call = NoCall
    /\ \E order \in FieldOrders(ast) :
        call' = [fn |-> "enum_conversions_derive", order |-> order,
                 res |-> impl_conversions(ast, order)]
    /\ UNCHANGED ast

Next ==
    \/ Call_fetch_name_with_generic_params
    \/ Call_fetch_impl_generics
    \/ Call_fetch_fields_from_enum
    \/ Call_create_marker_enums
    \/ Call_impl_get_variant
    \/ Call_impl_try_from
    \/ Call_impl_from
    \/ enum_conversions_derive

Spec == Init /\ [][Next]_vars

---------------------------------------------------------------------------
(* What the generated code does, read off the templates. *)

(* FROM_TEMPLATE's from: Self::field(value). *)
FROM_from(context, value) == [variant |-> context.field, inner |-> value]

WrongActiveField(container, requested) ==
    [error |-> "wrong_active_field", container |-> container, requested |-> requested]

(* GET_VARIANT_TEMPLATE's get_variant, get_variant_ref and get_variant_mut *)
(* match on name::field(inner), and on any other case build the error.     *)
GET_VARIANT_get_variant(context, self) ==
    IF self.variant = context.field
    THEN [ok |-> TRUE, val |-> self.inner]
    ELSE [ok |-> FALSE, val |-> WrongActiveField(context.fullname, context.Type)]

GET_VARIANT_get_variant_ref(context, self) ==
    IF self.variant = context.field
    THEN [ok |-> TRUE, val |-> self.inner]
    ELSE [ok |-> FALSE, val |-> WrongActiveField(context.fullname, context.Type)]

GET_VARIANT_get_variant_mut(context, self) ==
    IF self.variant = context.field
    THEN [ok |-> TRUE, val |-> self.inner]
    ELSE [ok |-> FALSE, val |-> WrongActiveField(context.fullname, context.Type)]

---------------------------------------------------------------------------
(* Properties of the macro, and the declarations they are about. *)

SingleUnnamed(var) == var.fields.kind = "Unnamed" /\ Len(var.fields.unnamed) = 1

WellShaped(a) ==
    a.data = "Enum" /\ \A i \in 1..Len(a.variants) : SingleUnnamed(a.variants[i])

DistinctPayloads(a) ==
    \A i, j \in 1..Len(a.variants) :
        i # j => a.variants[i].fields.unnamed[1] # a.variants[j].fields.unnamed[1]

ValidDecl(a) == WellShaped(a) /\ Len(a.variants) >= 1 /\ DistinctPayloads(a)

VariantIdents(a) == {a.variants[i].ident : i \in 1..Len(a.variants)}

PayloadOf(a, i) == a.variants[i].fields.unnamed[1]

(* The number of places of text where pat stands. *)
CountSub(text, pat) ==
    Cardinality({i \in 1..Len(text) :
        i + Len(pat) - 1 <= Len(text) /\ SubSeq(text, i, i + Len(pat) - 1) = pat})

(* C1: on an enum of K >= 1 variants, each with one unnamed field, of      *)
(* pairwise distinct payload types, fetch_fields_from_enum does not panic  *)
(* and returns a map of exactly K entries, keyed by the K variant names,   *)
(* each mapped to the text of its variant's payload type; a tuple payload  *)
(* is one field, with the text (i64 , bool).                               *)
C1_FieldMapOfValidEnum ==
    (call.fn = "fetch_fields_from_enum" /\ ValidDecl(ast)) =>
        /\ call.res.ok
        /\ DOMAIN call.res.val = VariantIdents(ast)
        /\ Cardinality(DOMAIN call.res.val) = Len(ast.variants)
        /\ \A i \in 1..Len(ast.variants) :
            /\ call.res.val[ast.variants[i].ident] = TypeText(PayloadOf(ast, i))
            /\ PayloadOf(ast, i) = TupleI64Bool =>
                    call.res.val[ast.variants[i].ident] = <<"(", "i64", ",", "bool", ")">>

C1_Witness ==
    /\ call.fn = "fetch_fields_from_enum"
    /\ ValidDecl(ast)
    /\ Len(ast.variants) >= 2
    /\ PayloadOf(ast, 2) = TupleI64Bool
    /\ call.res.ok
    /\ call.res.val["B"] = <<"(", "i64", ",", "bool", ")">>

(* C2: on a declaration that is not an enum, or that has a variant with    *)
(* zero, several or named fields, the macro fails in                       *)
(* fetch_fields_from_enum and returns nothing: its token stream is empty   *)
(* when it fails and no unit is returned.                                  *)
C2_FailsWholeOnUnsupported ==
    (call.fn = "enum_conversions_derive" /\ ~WellShaped(ast)) =>
        /\ ~call.res.ok
        /\ call.res.stage = "fetch_fields_from_enum"
        /\ call.res.tokens = <<>>
        /\ call.res.val = <<>>

C2_Witness ==
    /\ call.fn = "enum_conversions_derive"
    /\ ast.data = "Enum"
    /\ Len(ast.variants) >= 2
    /\ SingleUnnamed(ast.variants[1])
    /\ ~SingleUnnamed(ast.variants[2])
    /\ ~call.res.ok
    /\ call.res.stage = "fetch_fields_from_enum"

(* The rule a variant breaks, by its message. *)
RuleMsg(var) ==
    CASE var.fields.kind = "Named" -> NamedFieldsMsg
      [] var.fields.kind = "Unit" -> UnitMsg
      [] var.fields.kind = "Unnamed" /\ Len(var.fields.unnamed) = 0 -> UnitMsg
      [] OTHER -> MultipleFieldsMsg

FirstUnsupported(a) ==
    a.variants[CHOOSE i \in 1..Len(a.variants) :
        /\ ~SingleUnnamed(a.variants[i])
        /\ \A j \in 1..(i - 1) : SingleUnnamed(a.variants[j])]

(* C3: a shape failure carries the message of the rule broken, and the     *)
(* messages differ: not an enum, several fields, named fields, and no      *)
(* payload (a unit variant or an empty tuple variant).                     *)
C3_MessageNamesRule ==
    /\ Cardinality({NotEnumMsg, MultipleFieldsMsg, NamedFieldsMsg, UnitMsg}) = 4
    /\ (call.fn = "fetch_fields_from_enum" /\ ~WellShaped(ast)) =>
        /\ ~call.res.ok
        /\ call.res.msg = IF ast.data # "Enum" THEN NotEnumMsg
                          ELSE RuleMsg(FirstUnsupported(ast))

(* C4: in every map fetch_fields_from_enum returns the payload type texts  *)
(* are pairwise distinct: two variants of one type are rejected.           *)
C4_PayloadTypesDistinct ==
    (call.fn = "fetch_fields_from_enum" /\ call.res.ok) =>
        \A k1, k2 \in DOMAIN call.res.val :
            k1 # k2 => call.res.val[k1] # call.res.val[k2]

(* C5: on a valid declaration of N variants the macro returns a unit with  *)
(* one marker module named from the enum, one empty marker enum per        *)
(* variant named as the variant, and N GetVariant, N TryFrom and N From    *)
(* implementations, one of each per variant.                               *)
C5_UnitContents ==
    (call.fn = "enum_conversions_derive" /\ ValidDecl(ast)) =>
        LET unit == call.res.val
            N == Len(ast.variants)
            name == <<ast.ident>>
            fullname == fetch_name_with_generic_params(ast)
        IN  /\ call.res.ok
            /\ CountSub(unit, <<"mod", "enum___conversion___">> \o name \o <<"{">>) = 1
            /\ CountSub(unit, <<"mod">>) = 1
            /\ CountSub(unit, <<"pub", "(", "crate", ")", "enum">>) = N
            /\ CountSub(unit, <<"fn", "get_variant", "(">>) = N
            /\ CountSub(unit, <<"fn", "try_from", "(">>) = N
            /\ CountSub(unit, <<"fn", "from", "(">>) = N
            /\ \A i \in 1..N :
                LET V == ast.variants[i].ident
                    ty == TypeText(PayloadOf(ast, i))
                IN  /\ CountSub(unit, <<"pub", "(", "crate", ")", "enum", V, "{", "}">>) = 1
                    /\ CountSub(unit, <<"GetVariant", "<">> \o ty
                            \o <<",", "enum___conversion___">> \o name \o <<"::", V, ">", "for">>
                            \o fullname) = 1
                    /\ CountSub(unit, <<"TryFrom", "<">> \o fullname \o <<">", "for">> \o ty) = 1
                    /\ CountSub(unit, <<"From", "<">> \o ty \o <<">", "for">> \o fullname) = 1

PayloadValues == {"p1", "p2"}

(* The contexts of the implementations in the unit the macro returned. *)
GeneratedGetVariant ==
    get_variant_contexts(<<ast.ident>>, fetch_name_with_generic_params(ast),
        fetch_impl_generics(ast)[2], fetch_impl_generics(ast)[1],
        fetch_fields_from_enum(ast).val, call.order)

GeneratedFrom ==
    from_contexts(fetch_name_with_generic_params(ast), fetch_impl_generics(ast)[2],
        fetch_impl_generics(ast)[1], fetch_fields_from_enum(ast).val, call.order)

(* C6: for every variant V of a valid enum and every payload p, the        *)
(* generated From for V's type followed by the generated get_variant for   *)
(* V's type and marker gives Ok(p).                                        *)
C6_RoundTrip ==
    (call.fn = "enum_conversions_derive" /\ ValidDecl(ast)) =>
        /\ call.res.ok
        /\ \A i \in 1..Len(ast.variants) : \A p \in PayloadValues :
            LET ty == TypeText(PayloadOf(ast, i))
                marker == get_marker(<<ast.ident>>, <<ast.variants[i].ident>>)
            IN  /\ \E f \in 1..Len(GeneratedFrom) : GeneratedFrom[f].Type = ty
                /\ \E g \in 1..Len(GeneratedGetVariant) :
                        /\ GeneratedGetVariant[g].Type = ty
                        /\ GeneratedGetVariant[g].Marker = marker
                /\ \A f \in 1..Len(GeneratedFrom) : \A g \in 1..Len(GeneratedGetVariant) :
                    (/\ GeneratedFrom[f].Type = ty
                     /\ GeneratedGetVariant[g].Type = ty
                     /\ GeneratedGetVariant[g].Marker = marker) =>
                        GET_VARIANT_get_variant(GeneratedGetVariant[g],
                                                FROM_from(GeneratedFrom[f], p))
                            = [ok |-> TRUE, val |-> p]

(* C7: for every variant V and every value u of the enum, the generated    *)
(* get_variant, get_variant_ref and get_variant_mut for V succeed exactly  *)
(* when u's case is V, and otherwise return the wrong_active_field error   *)
(* of the enum's full name and V's payload type.                           *)
C7_AccessorsMatchActiveCase ==
    (call.fn = "enum_conversions_derive" /\ ValidDecl(ast)) =>
        /\ call.res.ok
        /\ \A i \in 1..Len(ast.variants) :
            \E g \in 1..Len(GeneratedGetVariant) :
                /\ GeneratedGetVariant[g].field = <<ast.variants[i].ident>>
                /\ \A j \in 1..Len(ast.variants) : \A p \in PayloadValues :
                    LET u == [variant |-> <<ast.variants[j].ident>>, inner |-> p]
                        expected ==
                            IF i = j THEN [ok |-> TRUE, val |-> p]
                            ELSE [ok |-> FALSE,
                                  val |-> WrongActiveField(
                                            fetch_name_with_generic_params(ast),
                                            TypeText(PayloadOf(ast, i)))]
                    IN  /\ GET_VARIANT_get_variant(GeneratedGetVariant[g], u) = expected
                        /\ GET_VARIANT_get_variant_ref(GeneratedGetVariant[g], u) = expected
                        /\ GET_VARIANT_get_variant_mut(GeneratedGetVariant[g], u) = expected

(* The name of a generic parameter without its bounds. *)
BareIdent(param) == IF param.kind = "Lifetime" THEN param.lifetime ELSE param.ident

(* C8: fetch_name_with_generic_params returns the enum's name followed by  *)
(* < params >, params the bare identifiers of the generic parameters in    *)
(* declaration order joined by commas, without bounds and without a        *)
(* trailing comma; with no generic parameter it returns the bare name.     *)
C8_FullName ==
    call.fn = "fetch_name_with_generic_params" =>
        LET n == Len(ast.params)
            got == call.res.val
        IN  /\ n = 0 => got = <<ast.ident>>
            /\ n > 0 =>
                /\ Len(got) = 2 * n + 2
                /\ got[1] = ast.ident
                /\ got[2] = "<"
                /\ got[Len(got)] = ">"
                /\ \A i \in 1..n : got[2 * i + 1] = BareIdent(ast.params[i])
                /\ \A i \in 1..(n - 1) : got[2 * i + 2] = ","
            /\ ast.params = <<LifetimeDef("'a"), TypeParam("T", <<"'a", "+", "Debug">>),
                              ConstParam("X", "usize")>> =>
                    got = <<"Enum", "<", "'a", ",", "T", ",", "X", ">">>

C8_Witness ==
    /\ call.fn = "fetch_name_with_generic_params"
    /\ Len(ast.params) >= 2
    /\ ast.params[1] = TypeParam("T", <<"'a", "+", "Debug">>)
    /\ ast.params[2] = LifetimeDef("'a")
    /\ call.res.val = <<"Enum", "<", "T", ",", "'a", ">">>

(* The nesting depth of place i of a where-clause text. *)
Depth(text, i) ==
    Cardinality({j \in 1..(i - 1) : text[j] \in {"<", "("}})
        - Cardinality({j \in 1..(i - 1) : text[j] \in {">", ")"}})

(* The predicates of a where clause: its text after where, cut at the      *)
(* commas that are in no bracket; a comma may follow the last predicate.   *)
RECURSIVE SplitPredicates(_)
SplitPredicates(text) ==
    LET commas == {i \in 1..Len(text) : text[i] = "," /\ Depth(text, i) = 0}
    IN  IF text = <<>> THEN <<>>
        ELSE IF commas = {} THEN <<text>>
        ELSE LET c == CHOOSE i \in commas : \A j \in commas : i <= j
             IN  <<SubSeq(text, 1, c - 1)>> \o SplitPredicates(SubSeq(text, c + 1, Len(text)))

GeneratedTryFrom ==
    try_from_contexts(<<ast.ident>>, fetch_name_with_generic_params(ast),
        fetch_impl_generics(ast)[2], fetch_impl_generics(ast)[1],
        fetch_fields_from_enum(ast).val, call.order)

(* C9: the where clause of V's TryFrom implementation is the declared      *)
(* where clause with one more predicate, fullname: GetVariant<T,           *)
(* marker(V)>, whether the declared one is empty or not; the declared      *)
(* predicates and the new one are separate predicates; marker(V) is a      *)
(* marker create_marker_enums declares; two variants get two constraints.  *)
C9_TryFromWhereClause ==
    (call.fn = "impl_try_from" /\ ValidDecl(ast)) =>
        LET name == <<ast.ident>>
            fullname == fetch_name_with_generic_params(ast)
            declared == ast.where_clause.predicates
            field_map == fetch_fields_from_enum(ast).val
            constraint(V) ==
                fullname \o <<":", "GetVariant", "<">> \o field_map[V] \o <<",">>
                    \o get_marker(name, <<V>>) \o <<">">>
        IN  /\ \A g \in 1..Len(GeneratedTryFrom) :
                LET V == call.order[g]
                    Where == GeneratedTryFrom[g].Where
                IN  /\ Where # <<>>
                    /\ Head(Where) = "where"
                    /\ SplitPredicates(Tail(Where)) =
                            [i \in 1..Len(declared) |-> PredicateText(declared[i])]
                                \o <<constraint(V)>>
                    /\ get_marker(name, <<V>>) = <<"enum___conversion___">> \o name \o <<"::", V>>
                    /\ CountSub(marker_enums_text(name, field_map, call.order),
                                <<"mod", "enum___conversion___">> \o name) = 1
                    /\ CountSub(marker_enums_text(name, field_map, call.order),
                                <<"enum", V, "{", "}">>) = 1
            /\ \A g, h \in 1..Len(GeneratedTryFrom) :
                g # h => GeneratedTryFrom[g].Where # GeneratedTryFrom[h].Where

(* C10: on a valid declaration every text handed to the token stream       *)
(* parser (the marker module, and the renderings of the get_variant,       *)
(* try_from and from templates) has matched delimiters, so no              *)
(* parse().unwrap() fails and the macro returns a unit.                    *)
C10_GeneratedTextsParse ==
    (/\ call.fn \in {"create_marker_enums", "impl_get_variant", "impl_try_from",
                     "impl_from", "enum_conversions_derive"}
     /\ ValidDecl(ast)) => call.res.ok

====
